---------------------------- MODULE Spec2Model ----------------------------
(* Connect (cloudcanal/connect): the tiered key/value store of state.ts,   *)
(* the event dispatcher, and the realtime binding of db.ts.                *)
EXTENDS Integers, Sequences, FiniteSets, TLC

\* ------------------------------------------------------------------ bounds
MaxNow == 2
MaxTtl == 1
MaxEntries == 3
MaxStack == 3
MaxSubs == 2
MaxListeners == 3
MaxWraps == 2
MaxLevel == 4

\* --------------------------------------------------------------- universes
Keys == {"a", "b"}
Values == {"v1", "v2"}
Undefined == "undefined"
AnyValue == Values \cup {Undefined}
Persist == {"memory", "session", "local"}
Handlers == {"h1", "h2"}
NoExpiry == -1
NoTtl == -1

VARIABLES
    memoryStore,      \* Map<string, StoredValue>: key -> slot
    sessionStorage,   \* sessionStorage under the cc: prefix: key -> raw slot
    localStorage,     \* localStorage under the cc: prefix: key -> raw slot
    now,              \* Date.now()
    window,           \* typeof window !== 'undefined': the host has the storages
    quotaExceeded,    \* storage.setItem throws: the backends reject every write
    document,         \* the elements that are in the document
    bindings,         \* the delegated bindings, in registration order
    attached,         \* DOM event type -> native listeners attached to the root
    handlers,         \* event name -> listeners in subscription order
    last,             \* the call made by the last step and its outcome
    emitted,          \* the events.emit calls made by the last step, in order
    invoked,          \* the listener invocations made by the last step, in order
    count,            \* resource id -> listeners registered on its names
    pendingEnable,    \* resource id -> an enable call is in flight
    liveHandle,       \* resource id -> the live handle is set
    pendingDisable,   \* resource id -> a disable call is in flight
    realtimeUnsubscribers,  \* Map<string, () => void>: collection -> subscription released (0: no entry)
    subscribing,      \* collection -> enableRealtime calls awaiting client.subscribe
    upstream,         \* collection -> the upstream subscriptions that are active
    completions,      \* settled promises whose reactions are queued (microtasks)
    calls             \* the binding calls made by the last step, in order

storeVars == <<memoryStore, sessionStorage, localStorage, now, window, quotaExceeded>>
domVars == <<document, bindings, attached>>
busVars == <<count, pendingEnable, liveHandle, pendingDisable>>
dbVars == <<realtimeUnsubscribers, subscribing, upstream, completions>>
vars == <<memoryStore, sessionStorage, localStorage, now, window, quotaExceeded, document, bindings, attached,
          handlers, last, emitted, invoked,
          count, pendingEnable, liveHandle, pendingDisable,
          realtimeUnsubscribers, subscribing, upstream, completions, calls>>

\* ------------------------------------------------------------ stored slots
\* A slot of a tier.  kind "none": no item; "rec": a StoredValue (in a
\* persistent tier: its JSON text); "bad": text JSON.parse rejects;
\* "num": JSON text of a value that is no record (a number).
Slot(kind, value, expiry) == [kind |-> kind, value |-> value, expiry |-> expiry]
NoSlot == Slot("none", Undefined, NoExpiry)
BadSlot == Slot("bad", Undefined, NoExpiry)
NumSlot == Slot("num", Undefined, NoExpiry)
StoredValue(value, expiry) == Slot("rec", value, expiry)

\* JSON.stringify(stored): a member whose value is undefined is left out.
Stringify(stored) ==
    [kind |-> "rec",
     value |-> IF stored.value = Undefined THEN "omitted" ELSE stored.value,
     expiry |-> stored.expiry]

\* JSON.parse(raw) for a raw text that parses: a member left out reads undefined.
Parse(raw) ==
    IF raw.kind = "num" THEN NumSlot
    ELSE StoredValue(IF raw.value = "omitted" THEN Undefined ELSE raw.value, raw.expiry)

Store ==
    [memory |-> memoryStore, session |-> sessionStorage, local |-> localStorage,
     window |-> window, quotaExceeded |-> quotaExceeded]

\* getStorage(persist): null where there is no window, else the backend of a
\* persistent tier and null for memory.
getStorage(st, persist) ==
    IF ~st.window THEN "null"
    ELSE IF persist \in {"session", "local"} THEN persist ELSE "null"

isExpired_NeverExpires(stored, t) == FALSE

isExpired_AtExpiry(stored, t) == stored.expiry # NoExpiry /\ t >= stored.expiry

\* isExpired(stored) at Date.now() = t
isExpired(stored, t) == stored.expiry # NoExpiry /\ t > stored.expiry

\* getFromStorage(key, storage): null ("none") when there is no item or the
\* item does not parse; the parsed value otherwise.
getFromStorage(st, key, storage) ==
    LET raw == st[storage][key]
    IN  IF raw.kind = "none" THEN NoSlot
        ELSE IF raw.kind = "bad" THEN NoSlot
        ELSE Parse(raw)

saveToStorage_OnlyCopy(st, key, stored, storage) ==
    [st EXCEPT !.session[key] = IF storage = "session" THEN Stringify(stored) ELSE NoSlot,
               !.local[key] = IF storage = "local" THEN Stringify(stored) ELSE NoSlot]

\* saveToStorage(key, stored, storage): setItem in a try block; a rejected
\* write is logged and swallowed.
saveToStorage(st, key, stored, storage) ==
    IF st.quotaExceeded THEN st ELSE [st EXCEPT ![storage][key] = Stringify(stored)]

removeFromStorage(st, key, storage) ==
    [st EXCEPT ![storage][key] = NoSlot]

\* The outcome of a call: the store it leaves, what it returns, whether it
\* threw (RangeError: the call stack is exhausted), and the events it emitted.
Outcome(st, ret, threw, events) == [st |-> st, ret |-> ret, threw |-> threw, events |-> events]

StateEvent(key, value, oldValue) ==
    [name |-> <<"state", key>>, value |-> value, oldValue |-> oldValue]

\* The loop of state.get over the persistent tiers, from tier `tiers[1]` on.
RECURSIVE getPersistent(_, _, _, _)
getPersistent(st, key, t, tiers) ==
    IF tiers = <<>> THEN Outcome(st, Undefined, FALSE, <<>>)
    ELSE LET storage == getStorage(st, Head(tiers))
             stored == IF storage = "null" THEN NoSlot ELSE getFromStorage(st, key, storage)
         IN  IF stored.kind # "none"
             THEN IF isExpired(stored, t)
                  THEN getPersistent(removeFromStorage(st, key, storage), key, t, Tail(tiers))
                  ELSE Outcome(st, stored.value, FALSE, <<>>)
             ELSE getPersistent(st, key, t, Tail(tiers))

RECURSIVE stateGet(_, _, _, _)
RECURSIVE stateRemove(_, _, _, _)

\* state.get(key) at time t with `depth` stack frames left.
stateGet(st, key, t, depth) ==
    IF depth = 0 THEN Outcome(st, Undefined, TRUE, <<>>)
    ELSE LET mem == st.memory[key]
         IN  IF mem.kind # "none"
             THEN IF isExpired(mem, t)
                  THEN LET r == stateRemove(st, key, t, depth - 1)
                       IN  IF r.threw THEN r
                           ELSE Outcome(r.st, Undefined, FALSE, r.events)
                  ELSE Outcome(st, mem.value, FALSE, <<>>)
             ELSE getPersistent(st, key, t, <<"session", "local">>)

\* removeFromStorage(key, storage) where getStorage(persist) is not null
removeWhereStorage(st, key, persist) ==
    IF getStorage(st, persist) # "null" THEN removeFromStorage(st, key, persist) ELSE st

removeAll_SkipsLocal(st, key) ==
    removeWhereStorage([st EXCEPT !.memory[key] = NoSlot], key, "session")

\* The deletions of state.remove: memory, then every persistent tier.
removeAll(st, key) ==
    removeWhereStorage(
        removeWhereStorage([st EXCEPT !.memory[key] = NoSlot], key, "session"),
        key, "local")

stateRemove_NoAbsentCheck(st, key, t, depth) ==
    IF depth = 0 THEN Outcome(st, Undefined, TRUE, <<>>)
    ELSE LET g == stateGet(st, key, t, depth - 1)
         IN  IF g.threw THEN g
             ELSE Outcome(removeAll(g.st, key), Undefined, FALSE,
                          g.events \o <<StateEvent(key, Undefined, g.ret)>>)

\* state.remove(key)
stateRemove(st, key, t, depth) ==
    IF depth = 0 THEN Outcome(st, Undefined, TRUE, <<>>)
    ELSE LET g == stateGet(st, key, t, depth - 1)
         IN  IF g.threw THEN g
             ELSE IF g.ret = Undefined THEN Outcome(g.st, Undefined, FALSE, g.events)
             ELSE Outcome(removeAll(g.st, key), Undefined, FALSE,
                          g.events \o <<StateEvent(key, Undefined, g.ret)>>)

\* state.set(key, value, {persist, ttl})
stateSet(st, key, value, persist, ttl, t, depth) ==
    LET g == stateGet(st, key, t, depth - 1)
        stored == StoredValue(value, IF ttl # NoTtl /\ ttl # 0 THEN t + ttl ELSE NoExpiry)
        storage == getStorage(st, persist)
        written == IF storage # "null"
                   THEN [saveToStorage(g.st, key, stored, storage)
                            EXCEPT !.memory[key] = NoSlot]
                   ELSE [g.st EXCEPT !.memory[key] = stored]
    IN  IF g.threw THEN g
        ELSE Outcome(written, Undefined, FALSE,
                     g.events \o <<StateEvent(key, value, g.ret)>>)

\* state.has(key)
stateHas(st, key, t, depth) ==
    LET g == stateGet(st, key, t, depth - 1)
    IN  IF g.threw THEN g
        ELSE Outcome(g.st, IF g.ret # Undefined THEN "true" ELSE "false", FALSE, g.events)

\* The cc: items of a persistent tier removed, where the tier has a backend.
clearWhereStorage(st, persist) ==
    IF getStorage(st, persist) # "null"
    THEN [st EXCEPT ![persist] = [k \in Keys |-> NoSlot]]
    ELSE st

stateClear_KeepsLocal(st) ==
    Outcome(clearWhereStorage([st EXCEPT !.memory = [k \in Keys |-> NoSlot]], "session"),
            Undefined, FALSE, <<>>)

\* state.clear()
stateClear(st) ==
    Outcome(clearWhereStorage(
                clearWhereStorage([st EXCEPT !.memory = [k \in Keys |-> NoSlot]], "session"),
                "local"),
            Undefined, FALSE, <<>>)

\* state.list(): one descriptor per listed entry, memory first, then each
\* persistent tier (keys of one tier in the order KeyOrder).
KeyOrder == <<"a", "b">>

RECURSIVE listTier(_, _, _, _)
listTier(st, persist, t, i) ==
    IF i > Len(KeyOrder) THEN <<>>
    ELSE LET key == KeyOrder[i]
             stored == IF persist = "memory" THEN st.memory[key]
                       ELSE IF getStorage(st, persist) = "null" THEN NoSlot
                       ELSE getFromStorage(st, key, persist)
             rest == listTier(st, persist, t, i + 1)
         IN  IF stored.kind # "none" /\ ~isExpired(stored, t)
             THEN <<[key |-> key, storage |-> persist]>> \o rest
             ELSE rest

stateList(st, t) ==
    listTier(st, "memory", t, 1) \o listTier(st, "session", t, 1) \o listTier(st, "local", t, 1)

\* ------------------------------------------------------------- dispatcher
Collections == {"posts"}
DbActions == {"create", "update", "delete"}
StateNames == {<<"state", k>> : k \in Keys}
DbNames == {<<"db", c, a>> : c \in Collections, a \in DbActions}

\* Single-item names db:{collection}:{action}:{id}; the binding keeps a record
\* subscription under the key `${collection}:${id}`.
RecordIds == {"r1"}
ItemActions == {"update"}
ItemNames == {<<"db", c, a, r>> : c \in Collections, a \in ItemActions, r \in RecordIds}
ItemKey(collection, id) == collection \o ":" \o id
ItemKeys == {ItemKey(c, r) : c \in Collections, r \in RecordIds}
Resources == Collections \cup ItemKeys
Names == StateNames \cup DbNames \cup ItemNames

emit_ByFamily(hs, e) ==
    LET all == hs[e.name] \o (IF Len(e.name) = 4 THEN hs[SubSeq(e.name, 1, 3)] ELSE <<>>)
    IN  [i \in 1..Len(all) |-> [handler |-> all[i], event |-> e]]

\* events.emit(eventName, payload): every handler of the name, in order.
emit(hs, e) == [i \in 1..Len(hs[e.name]) |-> [handler |-> hs[e.name][i], event |-> e]]

RECURSIVE emitAll(_, _)
emitAll(hs, events) ==
    IF events = <<>> THEN <<>> ELSE emit(hs, Head(events)) \o emitAll(hs, Tail(events))

InSeq(x, s) == \E i \in 1..Len(s) : s[i] = x
Without(s, x) == SelectSeq(s, LAMBDA y : y # x)

on_AddsAgain(hs, name, h) == [hs EXCEPT ![name] = Append(@, h)]

\* events.on(eventName, handler): Set.add keeps the first insertion.
on(hs, name, h) == IF InSeq(h, hs[name]) THEN hs ELSE [hs EXCEPT ![name] = Append(@, h)]

\* events.off(eventName, handler)
off(hs, name, h) == [hs EXCEPT ![name] = Without(@, h)]

\* events.clear(eventName): the handlers of one name
clearName(hs, name) == [hs EXCEPT ![name] = <<>>]

\* events.clear(): the handlers of every name
clearAll(hs) == [n \in Names |-> <<>>]

\* ------------------------------------------------------------ store steps
Entries(st) ==
    Cardinality({<<p, k>> \in Persist \X Keys : st[p][k].kind # "none"})

AllEmpty(st) == \A p \in Persist, k \in Keys : st[p][k].kind = "none"

\* The tiers that hold an item for the key.
Holding(st, key) == {p \in Persist : st[p][key].kind # "none"}

\* A call and its outcome; `before` is the tiers that held an item for the key
\* when the call was made (for clear: the number of items in all tiers).
Call(op, key, value, persist, ttl, ret, threw) ==
    [op |-> op, key |-> key, value |-> value, persist |-> persist, ttl |-> ttl,
     ret |-> ret, threw |-> threw,
     before |-> IF key \in Keys THEN Cardinality(Holding(Store, key)) ELSE Entries(Store)]
NoCall ==
    [op |-> "init", key |-> "", value |-> Undefined, persist |-> "memory", ttl |-> NoTtl,
     ret |-> Undefined, threw |-> FALSE, before |-> 0]

\* What a store call leaves behind: the tiers, the events and the listeners run.
Apply(call, outcome) ==
    \E r \in {outcome} :
        /\ memoryStore' = r.st.memory
        /\ sessionStorage' = r.st.session
        /\ localStorage' = r.st.local
        /\ emitted' = r.events
        /\ invoked' = emitAll(handlers, r.events)
        /\ last' = [call EXCEPT !.ret = r.ret, !.threw = r.threw]
        /\ UNCHANGED <<now, window, quotaExceeded, domVars, handlers, busVars, dbVars, calls>>

Get(key) ==
    /\ key \in Keys
    /\ Apply(Call("get", key, Undefined, "memory", NoTtl, Undefined, FALSE),
             stateGet(Store, key, now, MaxStack))

Set(key, value, persist, ttl) ==
    /\ Entries(stateSet(Store, key, value, persist, ttl, now, MaxStack).st) <= MaxEntries
    /\ ttl # NoTtl => now + ttl < MaxNow
    /\ Apply(Call("set", key, value, persist, ttl, Undefined, FALSE),
             stateSet(Store, key, value, persist, ttl, now, MaxStack))

Has(key) ==
    /\ key \in Keys
    /\ Apply(Call("has", key, Undefined, "memory", NoTtl, Undefined, FALSE),
             stateHas(Store, key, now, MaxStack))

Remove(key) ==
    /\ key \in Keys
    /\ Apply(Call("remove", key, Undefined, "memory", NoTtl, Undefined, FALSE),
             stateRemove(Store, key, now, MaxStack))

\* state.list(): reads every tier and changes none.
List ==
    /\ now <= MaxNow
    /\ Apply(Call("list", "", Undefined, "memory", NoTtl, Undefined, FALSE),
             Outcome(Store, stateList(Store, now), FALSE, <<>>))

Clear ==
    /\ now <= MaxNow
    /\ Apply(Call("clear", "", Undefined, "memory", NoTtl, Undefined, FALSE), stateClear(Store))

\* Time passes between calls.
Tick ==
    /\ now < MaxNow
    /\ now' = now + 1
    /\ UNCHANGED <<memoryStore, sessionStorage, localStorage, window, quotaExceeded, domVars, handlers,
                   last, emitted, invoked, busVars, dbVars, calls>>

\* Another writer of the same origin (another tab, an earlier page) leaves
\* text under a cc: key that is no StoredValue record.
ForeignWrite(key, persist, slot) ==
    /\ window
    /\ Store[persist][key].kind = "none"
    /\ Entries(Store) < MaxEntries
    /\ sessionStorage' = IF persist = "session" THEN [sessionStorage EXCEPT ![key] = slot]
                         ELSE sessionStorage
    /\ localStorage' = IF persist = "local" THEN [localStorage EXCEPT ![key] = slot]
                       ELSE localStorage
    /\ last' = [NoCall EXCEPT !.op = "foreign", !.key = key, !.persist = persist]
    /\ emitted' = <<>>
    /\ invoked' = <<>>
    /\ UNCHANGED <<memoryStore, now, window, quotaExceeded, domVars, handlers, busVars, dbVars, calls>>

InitStore ==
    /\ memoryStore = [k \in Keys |-> NoSlot]
    /\ sessionStorage = [k \in Keys |-> NoSlot]
    /\ localStorage = [k \in Keys |-> NoSlot]
    /\ now = 0
    /\ last = NoCall
    /\ emitted = <<>>
    /\ invoked = <<>>

\* A page with an empty document and no delegated binding.
DomTypes == {"click", "input"}
InitDom ==
    /\ document = {}
    /\ bindings = <<>>
    /\ attached = [t \in DomTypes |-> 0]

InitBus ==
    /\ count = [c \in Resources |-> 0]
    /\ pendingEnable = [c \in Resources |-> FALSE]
    /\ liveHandle = [c \in Resources |-> FALSE]
    /\ pendingDisable = [c \in Resources |-> FALSE]
    /\ realtimeUnsubscribers = [c \in Resources |-> 0]
    /\ subscribing = [c \in Resources |-> 0]
    /\ upstream = [c \in Resources |-> {}]
    /\ completions = <<>>
    /\ calls = <<>>

\* The store in use by a page that listens to the changes of key "a", in a
\* host without window (no storages), or in one whose storages are full.
StateInit ==
    /\ InitStore
    /\ InitBus
    /\ InitDom
    /\ window \in BOOLEAN
    /\ quotaExceeded \in {q \in BOOLEAN : q => window}
    /\ handlers = [n \in Names |-> IF n = <<"state", "a">> THEN <<"h1">> ELSE <<>>]

\* The calls of the page.  Key "a" is written with every value into every tier;
\* its writes with a ttl carry the value "v1".  Key "b" is a second key that
\* holds "v1" for good in the ephemeral or the local tier.
StateNext ==
    \/ \E k \in Keys : Get(k)
    \/ \E v \in AnyValue, p \in Persist : Set("a", v, p, NoTtl)
    \/ \E p \in Persist, ttl \in 0..MaxTtl : Set("a", "v1", p, ttl)
    \/ \E p \in {"memory", "local"} : Set("b", "v1", p, NoTtl)
    \/ \E k \in Keys : Remove(k)
    \/ Clear
    \/ List
    \/ Tick
    \/ \E p \in {"session", "local"}, s \in {BadSlot, NumSlot} :
           ForeignWrite("a", p, s)

StateSpec == StateInit /\ [][StateNext]_vars

\* ------------------------------------------------- realtime binding (db.ts)
\* The bus records and the binding's maps as one value, so that one step can
\* run a handler and the binding calls it makes; `calls` collects those calls.
World ==
    [count |-> count, pendingEnable |-> pendingEnable, liveHandle |-> liveHandle,
     pendingDisable |-> pendingDisable, unsubscribers |-> realtimeUnsubscribers,
     subscribing |-> subscribing, upstream |-> upstream, completions |-> completions,
     calls |-> <<>>]

Settled(fn, id) == [fn |-> fn, id |-> id]

\* enableRealtime(collection) up to its await: returns at once when the map
\* has the collection, else starts client.collection(..).subscribe('*', ..).
enableRealtime(w, collection) ==
    IF w.unsubscribers[collection] # 0
    THEN [w EXCEPT !.completions = Append(@, Settled("enable", collection))]
    ELSE [w EXCEPT !.subscribing[collection] = @ + 1]

\* The subscription a resolving client.subscribe creates.
NewSub(w, collection) == CHOOSE s \in 1..MaxSubs : s \notin w.upstream[collection]

enableRealtime_ForgetsUnsubscribe(w, collection, sub) ==
    [w EXCEPT !.subscribing[collection] = @ - 1,
              !.upstream[collection] = @ \cup {sub}]

\* enableRealtime(collection) after its await: the subscription is active and
\* its unsubscribe function is stored in the map.
enableRealtimeResume(w, collection, sub) ==
    [w EXCEPT !.subscribing[collection] = @ - 1,
              !.upstream[collection] = @ \cup {sub},
              !.unsubscribers[collection] = sub]

\* enableRealtime(collection) when client.subscribe rejects.
enableRealtimeFail(w, collection) ==
    [w EXCEPT !.subscribing[collection] = @ - 1]

disableRealtime_KeepsEntry(w, collection) ==
    LET unsubscribe == w.unsubscribers[collection]
        released == IF unsubscribe # 0
                    THEN [w EXCEPT !.upstream[collection] = @ \ {unsubscribe}]
                    ELSE w
    IN  [released EXCEPT !.completions = Append(@, Settled("disable", collection))]

\* disableRealtime(collection): no await, so all of it runs within the call.
disableRealtime(w, collection) ==
    LET unsubscribe == w.unsubscribers[collection]
        released == IF unsubscribe # 0
                    THEN [w EXCEPT !.upstream[collection] = @ \ {unsubscribe},
                                   !.unsubscribers[collection] = 0]
                    ELSE w
    IN  [released EXCEPT !.completions = Append(@, Settled("disable", collection))]

\* enableRealtimeRecord(collection, id) up to its await, with key the
\* `${collection}:${id}` of its map realtimeRecordUnsubscribers (kept here as
\* the entries of the unsubscribers map at the record keys).
enableRealtimeRecord(w, key) ==
    IF w.unsubscribers[key] # 0
    THEN [w EXCEPT !.completions = Append(@, Settled("enable", key))]
    ELSE [w EXCEPT !.subscribing[key] = @ + 1]

\* disableRealtimeRecord(collection, id)
disableRealtimeRecord(w, key) ==
    LET unsubscribe == w.unsubscribers[key]
        released == IF unsubscribe # 0
                    THEN [w EXCEPT !.upstream[key] = @ \ {unsubscribe},
                                   !.unsubscribers[key] = 0]
                    ELSE w
    IN  [released EXCEPT !.completions = Append(@, Settled("disable", key))]

\* ------------------------------------ resource lifecycle of the event bus
\* A binding call of the bus; `held` tells whether, when the call was made, the
\* binding's map held the release function of a subscription still open.
\* For a record key the call is enableRealtimeRecord / disableRealtimeRecord,
\* logged as enableItem / disableItem.
Issue(w, fn, id) ==
    LET logged == [w EXCEPT !.calls = Append(@, [fn |-> IF id \in ItemKeys THEN fn \o "Item" ELSE fn,
                                                 id |-> id,
                                                 held |-> w.unsubscribers[id] \in w.upstream[id]])]
    IN  IF id \in ItemKeys
        THEN (IF fn = "enable" THEN enableRealtimeRecord(logged, id)
              ELSE disableRealtimeRecord(logged, id))
        ELSE (IF fn = "enable" THEN enableRealtime(logged, id) ELSE disableRealtime(logged, id))

resourceOf_IgnoresSubId(name) == IF name[1] = "db" THEN name[2] ELSE ""

\* The resource a name is counted under: the collection of a collection-level
\* name db:{collection}:{action}, the record key of a single-item name
\* db:{collection}:{action}:{id}.
resourceOf(name) ==
    IF Len(name) = 3 /\ name[1] = "db" THEN name[2]
    ELSE IF Len(name) = 4 /\ name[1] = "db" THEN ItemKey(name[2], name[4])
    ELSE ""

busOn_EnablesOnEveryRise(w, id, added) ==
    LET counted == [w EXCEPT !.count[id] = @ + added]
    IN  IF added > 0 /\ w.count[id] = 0
        THEN Issue([counted EXCEPT !.pendingEnable[id] = TRUE], "enable", id)
        ELSE counted

busOn_WaitsForDisable(w, id, added) ==
    LET counted == [w EXCEPT !.count[id] = @ + added]
    IN  IF added > 0 /\ w.count[id] = 0 /\ ~w.pendingEnable[id] /\ ~w.pendingDisable[id]
        THEN Issue([counted EXCEPT !.pendingEnable[id] = TRUE], "enable", id)
        ELSE counted

\* on: `added` listeners were registered on a name of the resource.
busOn(w, id, added) ==
    LET counted == [w EXCEPT !.count[id] = @ + added]
    IN  IF added > 0 /\ w.count[id] = 0 /\ ~w.pendingEnable[id]
        THEN Issue([counted EXCEPT !.pendingEnable[id] = TRUE], "enable", id)
        ELSE counted

busOff_DisablesPerAction(w, id, removed) ==
    LET counted == [w EXCEPT !.count[id] = @ - removed]
    IN  IF removed > 0 /\ ~w.pendingEnable[id] /\ w.liveHandle[id] /\ ~w.pendingDisable[id]
        THEN Issue([counted EXCEPT !.pendingDisable[id] = TRUE], "disable", id)
        ELSE counted

busOff_IgnoresPending(w, id, removed) ==
    LET counted == [w EXCEPT !.count[id] = @ - removed]
    IN  IF removed > 0 /\ counted.count[id] = 0
        THEN Issue([counted EXCEPT !.pendingDisable[id] = TRUE], "disable", id)
        ELSE counted

busOff_DisablesPerListener(w, id, removed) ==
    LET counted == [w EXCEPT !.count[id] = @ - removed]
        once == Issue([counted EXCEPT !.pendingDisable[id] = TRUE], "disable", id)
    IN  IF removed > 0 /\ counted.count[id] = 0
           /\ ~w.pendingEnable[id] /\ w.liveHandle[id] /\ ~w.pendingDisable[id]
        THEN (IF removed > 1 THEN Issue(once, "disable", id) ELSE once)
        ELSE counted

\* off / clear: `removed` listeners of the resource were removed.
busOff(w, id, removed) ==
    LET counted == [w EXCEPT !.count[id] = @ - removed]
    IN  IF removed > 0 /\ counted.count[id] = 0
           /\ ~w.pendingEnable[id] /\ w.liveHandle[id] /\ ~w.pendingDisable[id]
        THEN Issue([counted EXCEPT !.pendingDisable[id] = TRUE], "disable", id)
        ELSE counted

busEnableResolved_GoesLive(w, id) ==
    [w EXCEPT !.pendingEnable[id] = FALSE, !.liveHandle[id] = TRUE]

\* The pending enable resolved.
busEnableResolved(w, id) ==
    LET live == [w EXCEPT !.pendingEnable[id] = FALSE, !.liveHandle[id] = TRUE]
    IN  IF w.count[id] = 0
        THEN Issue([live EXCEPT !.pendingDisable[id] = TRUE], "disable", id)
        ELSE live

busEnableRejected_RollsBack(w, id) ==
    [w EXCEPT !.pendingEnable[id] = FALSE, !.count[id] = 0]

\* The pending enable rejected: the count is kept.
busEnableRejected(w, id) == [w EXCEPT !.pendingEnable[id] = FALSE]

busDisableResolved_KeepsHandle(w, id) == [w EXCEPT !.pendingDisable[id] = FALSE]

\* The disable in flight resolved.
busDisableResolved(w, id) ==
    [w EXCEPT !.pendingDisable[id] = FALSE, !.liveHandle[id] = FALSE]

\* ------------------------------------------------------------- bus steps
Commit(op, id, w) ==
    /\ count' = w.count
    /\ pendingEnable' = w.pendingEnable
    /\ liveHandle' = w.liveHandle
    /\ pendingDisable' = w.pendingDisable
    /\ realtimeUnsubscribers' = w.unsubscribers
    /\ subscribing' = w.subscribing
    /\ upstream' = w.upstream
    /\ completions' = w.completions
    /\ calls' = w.calls
    /\ last' = [NoCall EXCEPT !.op = op, !.key = id, !.before = count[id]]
    /\ emitted' = <<>>
    /\ invoked' = <<>>
    /\ UNCHANGED <<storeVars, domVars>>

ListenersOf(hs, id) ==
    LET names == {n \in DbNames \cup ItemNames : resourceOf(n) = id}
        sizes == [n \in names |-> Len(hs[n])]
        RECURSIVE Sum(_)
        Sum(S) == IF S = {} THEN 0
                  ELSE LET n == CHOOSE n \in S : TRUE IN sizes[n] + Sum(S \ {n})
    IN  Sum(names)

\* events.on(name, handler) on a resource-backed name
On(name, h) ==
    /\ handlers' = on(handlers, name, h)
    /\ Commit("on", resourceOf(name),
              busOn(World, resourceOf(name), IF InSeq(h, handlers[name]) THEN 0 ELSE 1))

\* events.off(name, handler) on a resource-backed name
Off(name, h) ==
    /\ handlers' = off(handlers, name, h)
    /\ Commit("off", resourceOf(name),
              busOff(World, resourceOf(name), IF InSeq(h, handlers[name]) THEN 1 ELSE 0))

\* events.clear(name) on a resource-backed name
ClearName(name) ==
    /\ handlers' = clearName(handlers, name)
    /\ Commit("clear", resourceOf(name),
              busOff(World, resourceOf(name), Len(handlers[name])))

\* events.clear()
ClearAll(id) ==
    /\ handlers' = clearAll(handlers)
    /\ Commit("clearAll", id, busOff(World, id, ListenersOf(handlers, id)))

\* client.subscribe resolves and enableRealtime resumes; the bus then learns
\* that its enable resolved.  Reactions already queued run first.
SubscribeResolved(id) ==
    /\ subscribing[id] > 0
    /\ completions = <<>>
    /\ Cardinality(upstream[id]) < MaxSubs
    /\ UNCHANGED handlers
    /\ Commit("enableResolved", id,
              busEnableResolved(enableRealtimeResume(World, id, NewSub(World, id)), id))

\* client.subscribe rejects, and with it the enable of the bus.
SubscribeRejected(id) ==
    /\ subscribing[id] > 0
    /\ completions = <<>>
    /\ UNCHANGED handlers
    /\ Commit("enableRejected", id, busEnableRejected(enableRealtimeFail(World, id), id))

\* The reaction to the oldest settled promise runs.
Deliver ==
    /\ completions # <<>>
    /\ UNCHANGED handlers
    /\ LET done == Head(completions)
           w == [World EXCEPT !.completions = Tail(@)]
       IN  Commit(done.fn \o "Done", done.id,
                  IF done.fn = "enable" THEN busEnableResolved(w, done.id)
                  ELSE busDisableResolved(w, done.id))

\* The payloads of the db events: { id } and { record }.
IdPayload(id) == [id |-> id]
RecordPayload(id) == [record |-> [id |-> id]]
DbEvent(collection, action, payload) ==
    [name |-> <<"db", collection, action>>, payload |-> payload]

\* A db event is emitted to the listeners of its name: no enable or disable
\* is issued and the bindings stay.
DbEmit(op, id, events) ==
    /\ emitted' = events
    /\ invoked' = emitAll(handlers, events)
    /\ last' = [NoCall EXCEPT !.op = op, !.key = id]
    /\ calls' = <<>>
    /\ UNCHANGED <<storeVars, domVars, handlers, busVars, dbVars>>

\* db.delete(collection, id) once the server has deleted the record
DbDelete(collection, id) ==
    DbEmit("dbDelete", collection, <<DbEvent(collection, "delete", IdPayload(id))>>)

\* db.create(collection, data) once the server has created the record `id`
DbCreate(collection, id) ==
    DbEmit("dbCreate", collection, <<DbEvent(collection, "create", RecordPayload(id))>>)

\* The callback enableRealtime subscribed with receives a change of a record.
RealtimeMessage(collection, action, id) ==
    /\ upstream[collection] # {}
    /\ DbEmit("realtime", collection, <<DbEvent(collection, action, RecordPayload(id))>>)

EventsInit ==
    /\ InitStore
    /\ InitBus
    /\ InitDom
    /\ window = TRUE
    /\ quotaExceeded = FALSE
    /\ handlers = [n \in Names |-> <<>>]

EventsNext ==
    \/ \E n \in DbNames, h \in Handlers : On(n, h)
    \/ \E n \in DbNames, h \in Handlers : Off(n, h)
    \/ \E n \in DbNames : ClearName(n)
    \/ \E c \in Collections : ClearAll(c)
    \/ \E c \in Collections : SubscribeResolved(c)
    \/ \E c \in Collections : SubscribeRejected(c)
    \/ Deliver
    \/ \E c \in Collections, id \in RecordIds : DbDelete(c, id)
    \/ \E c \in Collections, id \in RecordIds : DbCreate(c, id)
    \/ \E c \in Collections, a \in DbActions, id \in RecordIds : RealtimeMessage(c, a, id)

EventsSpec == EventsInit /\ [][EventsNext]_vars

\* ------------------------------------- dispatch with callbacks that act
\* What a callback does when invoked: a plain one returns, a thrower throws,
\* an emitter emits the name it listens to once more before it returns.
Plain == {"h1"}
Throwers == {"hThrow"}
Emitters == {"hEmit"}
Callbacks == Plain \cup Throwers \cup Emitters
Payloads == {"p1", "p2"}
Reemitted == "again"

\* A member of the handler set of a name: the callback itself (wrap = 0), or
\* the wrapper function that a call of once created around it (wrap > 0).
Listener(cb, wrap) == [cb |-> cb, wrap |-> wrap]

\* A dispatch in progress: the handler sets, the invocations made so far, an
\* exception on its way up, and the errors console.error has reported.
Run(hs, log, threw, reported) == [hs |-> hs, log |-> log, threw |-> threw, reported |-> reported]

Invocation(entry, payload, level) ==
    [cb |-> entry.cb, wrap |-> entry.wrap, payload |-> payload, level |-> level]

tryCatch_Rethrows(r) == r

\* try { handler(payload) } catch (e) { console.error(..) }
tryCatch(r) ==
    IF r.threw THEN [r EXCEPT !.threw = FALSE, !.reported = @ + 1] ELSE r

wrapperOff_KeepsItself(hs, name, entry) == hs

\* The first statement of the wrapper of once: this.off(eventName, wrapper)
wrapperOff(hs, name, entry) == off(hs, name, entry)

RECURSIVE Reversed(_)
Reversed(q) == IF q = <<>> THEN <<>> ELSE Append(Reversed(Tail(q)), Head(q))

Unvisited_LastFirst(members, visited) ==
    Reversed(SelectSeq(members, LAMBDA m : m \notin visited))

\* Set.forEach visits the members in insertion order, those removed before
\* their turn left out: the next member to visit.
Unvisited(members, visited) == SelectSeq(members, LAMBDA m : m \notin visited)

RECURSIVE handler(_, _, _, _, _)
RECURSIVE forEach(_, _, _, _, _)
RECURSIVE emitRun(_, _, _, _)

\* handler(payload): the callback, or the wrapper of once around it.
handler(r, name, entry, payload, level) ==
    LET entered == IF entry.wrap > 0
                   THEN [r EXCEPT !.hs = wrapperOff(r.hs, name, entry)]
                   ELSE r
        called == [entered EXCEPT !.log = Append(@, Invocation(entry, payload, level))]
    IN  IF entry.cb \in Throwers THEN [called EXCEPT !.threw = TRUE]
        ELSE IF entry.cb \in Emitters THEN emitRun(called, name, Reemitted, level + 1)
        ELSE called

\* eventHandlers.forEach(handler => { try .. catch .. })
forEach(r, name, payload, visited, level) ==
    LET left == Unvisited(r.hs[name], visited)
    IN  IF left = <<>> \/ r.threw THEN r
        ELSE forEach(tryCatch(handler(r, name, Head(left), payload, level)),
                     name, payload, visited \cup {Head(left)}, level)

\* events.emit(eventName, payload), called `level` emits deep; a call deeper
\* than the stack allows throws RangeError.
emitRun(r, name, payload, level) ==
    IF level > MaxLevel THEN [r EXCEPT !.threw = TRUE]
    ELSE IF r.hs[name] = <<>> THEN r
    ELSE forEach(r, name, payload, {}, level)

\* Emits made one after the other in the same tick; an emit that throws ends them.
RECURSIVE emitEach(_, _, _)
emitEach(r, name, payloads) ==
    IF payloads = <<>> \/ r.threw THEN r
    ELSE emitEach(emitRun(r, name, Head(payloads), 0), name, Tail(payloads))

\* events.once(eventName, handler): a new wrapper function is registered.
NewWrap(hs, name, cb) ==
    CHOOSE k \in 1..MaxWraps : ~InSeq(Listener(cb, k), hs[name])

once(hs, name, cb) == on(hs, name, Listener(cb, NewWrap(hs, name, cb)))

\* The events a store call emitted, dispatched one after the other.
RECURSIVE emitEvents(_, _)
emitEvents(r, events) ==
    IF events = <<>> \/ r.threw THEN r
    ELSE emitEvents(emitRun(r, Head(events).name, Head(events).value, 0), Tail(events))

\* --------------------------------------------------------- dispatch steps
DispatchNames == {<<"state", "a">>}
Bursts == {<<"p1">>, <<"p1", "p2">>}

Dispatched(op, cb, payloads, r) ==
    /\ handlers' = r.hs
    /\ invoked' = r.log
    /\ emitted' = <<>>
    /\ last' = [NoCall EXCEPT !.op = op, !.key = cb, !.before = Len(payloads),
                              !.threw = r.threw]
    /\ UNCHANGED <<storeVars, domVars, busVars, dbVars, calls>>

Idle(hs) == Run(hs, <<>>, FALSE, 0)

\* events.on(name, cb)
Listen(name, cb) ==
    /\ Len(handlers[name]) < MaxListeners
    /\ Dispatched("on", cb, <<>>, Idle(on(handlers, name, Listener(cb, 0))))

\* events.once(name, cb)
ListenOnce(name, cb) ==
    /\ Len(handlers[name]) < MaxListeners
    /\ \E k \in 1..MaxWraps : ~InSeq(Listener(cb, k), handlers[name])
    /\ Dispatched("once", cb, <<>>, Idle(once(handlers, name, cb)))

\* events.off(name, cb) with the callback the caller holds
Unlisten(name, cb) ==
    /\ Dispatched("off", cb, <<>>, Idle(off(handlers, name, Listener(cb, 0))))

\* events.emit(name, p) for each payload of a burst, in one tick
Emit(name, payloads) ==
    /\ Dispatched("emit", "", payloads, emitEach(Idle(handlers), name, payloads))

\* events.clear(name)
Forget(name) ==
    /\ handlers[name] # <<>>
    /\ Dispatched("clear", "", <<>>, Idle(clearName(handlers, name)))

\* events.clear()
ForgetAll ==
    /\ \E n \in Names : handlers[n] # <<>>
    /\ Dispatched("clearAll", "", <<>>, Idle(clearAll(handlers)))

\* A store call whose events go to callbacks that act.
Notify(op, key, outcome) ==
    \E o \in {outcome} :
        \E r \in {emitEvents(Idle(handlers), o.events)} :
            /\ memoryStore' = o.st.memory
            /\ sessionStorage' = o.st.session
            /\ localStorage' = o.st.local
            /\ handlers' = r.hs
            /\ invoked' = r.log
            /\ emitted' = o.events
            /\ last' = [NoCall EXCEPT !.op = op, !.key = key, !.threw = o.threw \/ r.threw]
            /\ UNCHANGED <<now, window, quotaExceeded, domVars, busVars, dbVars, calls>>

\* state.set(key, "v1")
SetNotify(key) ==
    /\ key \in Keys
    /\ Notify("set", key, stateSet(Store, key, "v1", "memory", NoTtl, now, MaxStack))

\* state.remove(key)
RemoveNotify(key) ==
    /\ key \in Keys
    /\ Notify("remove", key, stateRemove(Store, key, now, MaxStack))

DispatchInit ==
    /\ InitStore
    /\ InitBus
    /\ InitDom
    /\ window = TRUE
    /\ quotaExceeded = FALSE
    /\ handlers = [n \in Names |-> <<>>]

DispatchNext ==
    \/ \E n \in DispatchNames, cb \in Plain \cup Throwers : Listen(n, cb)
    \/ \E n \in DispatchNames, cb \in Callbacks : ListenOnce(n, cb)
    \/ \E n \in DispatchNames, cb \in Callbacks : Unlisten(n, cb)
    \/ \E n \in DispatchNames, ps \in Bursts : Emit(n, ps)
    \/ \E n \in DispatchNames : Forget(n)
    \/ ForgetAll
    \/ SetNotify("a")
    \/ RemoveNotify("a")

DispatchSpec == DispatchInit /\ [][DispatchNext]_vars

\* --------------------------------------------------------- store: claims
\* The stored record a tier holds for the key, as state.get reads it.
Read(st, key, persist) ==
    IF persist = "memory" THEN st.memory[key] ELSE getFromStorage(st, key, persist)

\* The tier holds a StoredValue for the key that has not expired at time t.
HoldsLive(st, key, persist, t) ==
    LET stored == Read(st, key, persist)
    IN  stored.kind = "rec" /\ (stored.expiry = NoExpiry \/ t <= stored.expiry)

TierOrder == <<"memory", "session", "local">>
FirstLive(st, key, t) ==
    LET i == CHOOSE i \in 1..3 :
                 /\ HoldsLive(st, key, TierOrder[i], t)
                 /\ \A j \in 1..(i - 1) : ~HoldsLive(st, key, TierOrder[j], t)
    IN  TierOrder[i]

\* C5 (for a write to the ephemeral tier, the default tier of set): after
\* set(key, v, {ttl}) with ttl > 0, from any prior store, the next get(key)
\* returns v while now <= expiry; once now > expiry it returns absent and the
\* tier written holds no item for the key.
C5_TtlExpiry ==
    [][(/\ last.op = "set" /\ ~last.threw /\ last.ttl > 0 /\ last.persist = "memory"
        /\ last'.op = "get" /\ last'.key = last.key /\ now' = now)
       => LET expiry == Store[last.persist][last.key].expiry
          IN  /\ ~last'.threw
              /\ now <= expiry => last'.ret = last.value
              /\ now > expiry =>
                    /\ last'.ret = Undefined
                    /\ Store'[last.persist][last.key].kind = "none"]_vars

\* C6: when more than one tier holds a non-expired entry for a key, get(key)
\* returns the value of the first of them in the order memory, session, local.
C6_TierPrecedence ==
    \A k \in Keys :
        Cardinality({p \in Persist : HoldsLive(Store, k, p, now)}) > 1
        => LET g == stateGet(Store, k, now, MaxStack)
           IN  /\ ~g.threw
               /\ g.ret = Read(Store, k, FirstLive(Store, k, now)).value

\* C7: clear() invokes no listener and emits no state event, leaves every
\* tier without items, and afterwards get is absent for every key and list()
\* is empty.
C7_ClearSilent ==
    last.op = "clear"
    => /\ emitted = <<>>
       /\ invoked = <<>>
       /\ ~last.threw
       /\ AllEmpty(Store)
       /\ \A k \in Keys : LET g == stateGet(Store, k, now, MaxStack)
                          IN  ~g.threw /\ g.ret = Undefined
       /\ stateList(Store, now) = <<>>

\* C7 witness: clear() ran on a store with items in three slots while a
\* listener was subscribed to state:a.
C7_Witness ==
    /\ last.op = "clear"
    /\ last.before = 3
    /\ handlers[<<"state", "a">>] # <<>>

\* C8: remove(key) on a key whose get(key) is absent emits no event and does
\* not throw.
C8_RemoveAbsent ==
    \A k \in Keys :
        LET g == stateGet(Store, k, now, MaxStack)
            r == stateRemove(Store, k, now, MaxStack)
        IN  (~g.threw /\ g.ret = Undefined)
            => (~r.threw /\ r.events = <<>> /\ emitAll(handlers, r.events) = <<>>)

\* C8 witness: remove ran on a key that holds an item whose value reads
\* undefined; nothing was emitted and nothing thrown.
C8_Witness ==
    /\ last.op = "remove"
    /\ ~last.threw
    /\ last.before > 0
    /\ emitted = <<>>
    /\ last.key = "a"
    /\ Holding(Store, "a") # {}

\* C9: remove(key) on a key whose get(key) is present leaves no tier holding
\* the key, get(key) absent, and emits exactly one state:{key} event with
\* value absent and oldValue the value get returned before the removal.
C9_RemovePresent ==
    \A k \in Keys :
        LET g == stateGet(Store, k, now, MaxStack)
            r == stateRemove(Store, k, now, MaxStack)
        IN  (~g.threw /\ g.ret # Undefined)
            => /\ ~r.threw
               /\ Holding(r.st, k) = {}
               /\ stateGet(r.st, k, now, MaxStack).ret = Undefined
               /\ r.events = <<StateEvent(k, Undefined, g.ret)>>

\* C9 witness: remove ran on a key held by all three tiers and emitted the
\* deletion event with the old value.
C9_Witness ==
    /\ last.op = "remove"
    /\ last.key = "a"
    /\ last.before = 3
    /\ Holding(Store, "a") = {}
    /\ emitted = <<StateEvent("a", Undefined, "v1")>>
    /\ Len(invoked) = 1

\* C10: every set(key, value, options) emits exactly one state:{key} event,
\* with payload {value: the new value, oldValue: get(key) before the write}.
C10_SetEmitsOnce ==
    \A k \in Keys, v \in AnyValue, p \in Persist :
        LET r == stateSet(Store, k, v, p, NoTtl, now, MaxStack)
        IN  /\ ~r.threw
            /\ r.events = <<StateEvent(k, v, stateGet(Store, k, now, MaxStack).ret)>>


\* ----------------------------------------------------------- bus: claims
\* Number of binding calls fn(id) in a step's call log.
Issued(cs, fn, id) == Cardinality({i \in DOMAIN cs : cs[i].fn = fn /\ cs[i].id = id})

\* Live: listeners exist, the handle is set, nothing is in flight.
Live(id) == count[id] >= 1 /\ liveHandle[id] /\ ~pendingEnable[id] /\ ~pendingDisable[id]

\* C1 (as stated): every step in which the listener count of a resource goes
\* from 0 to 1 issues exactly one enable of it, an on while the count is
\* already >= 1 issues none, and never are two enables of it in flight.
C1_EnableOncePerRise ==
    [][\A id \in Collections :
         /\ (count[id] = 0 /\ count'[id] >= 1) => Issued(calls', "enable", id) = 1
         /\ (count[id] >= 1 /\ last'.op = "on") => Issued(calls', "enable", id) = 0
         /\ subscribing'[id] <= 1]_vars

\* C1 (amended): a step taking the count from 0 to 1 issues exactly one enable
\* when no enable of the resource is pending and none when one is pending; an
\* on while the count is already >= 1 issues none; enable is issued by no other
\* step, and never are two enables of the resource in flight.
C1_EnableOncePerIdleRise ==
    [][\A id \in Collections :
         /\ (count[id] = 0 /\ count'[id] >= 1 /\ ~pendingEnable[id])
                => Issued(calls', "enable", id) = 1
         /\ (count[id] = 0 /\ count'[id] >= 1 /\ pendingEnable[id])
                => Issued(calls', "enable", id) = 0
         /\ (count[id] >= 1 /\ last'.op = "on") => Issued(calls', "enable", id) = 0
         /\ Issued(calls', "enable", id) > 0 => (count[id] = 0 /\ count'[id] = 1)
         /\ subscribing'[id] <= 1]_vars

\* Three listeners on two actions of posts were registered while the one
\* enable is still in flight.
C1_Witness ==
    /\ last.op = "on"
    /\ count["posts"] = 3
    /\ calls = <<>>
    /\ pendingEnable["posts"]
    /\ subscribing["posts"] = 1

\* C2 (as stated): disable is issued only by a step that takes the count of
\* the resource to 0, every such step issues exactly one, and a removal that
\* leaves listeners issues none and keeps a Live resource Live.
C2_DisableOnLastOff ==
    [][\A id \in Collections :
         /\ Issued(calls', "disable", id) > 0 => (count[id] >= 1 /\ count'[id] = 0)
         /\ (count[id] >= 1 /\ count'[id] = 0) => Issued(calls', "disable", id) = 1
         /\ (count'[id] < count[id] /\ count'[id] >= 1)
                => /\ Issued(calls', "disable", id) = 0
                   /\ Live(id) => Live(id)']_vars

\* C2 (amended): disable is issued only while no listener of the resource
\* remains on any action, and at most once per step; the step that removes the
\* last listener of a Live resource issues exactly one; a removal that leaves
\* listeners issues none and keeps a Live resource Live.
C2_DisableAtZero ==
    [][\A id \in Collections :
         /\ Issued(calls', "disable", id) > 0
                => (count'[id] = 0 /\ Issued(calls', "disable", id) = 1)
         /\ (Live(id) /\ count'[id] = 0) => Issued(calls', "disable", id) = 1
         /\ (count'[id] < count[id] /\ count'[id] >= 1)
                => /\ Issued(calls', "disable", id) = 0
                   /\ Live(id) => Live(id)']_vars

\* The last of several listeners of a Live resource was just removed.
C2_Witness ==
    /\ last.op = "off"
    /\ count["posts"] = 0
    /\ calls # <<>>
    /\ calls[1].fn = "disable"
    /\ pendingDisable["posts"]
    /\ handlers = [n \in Names |-> <<>>]

\* C3: while an enable stays pending no disable is issued; when the enable
\* resolves with the count back at 0, that step issues exactly one disable,
\* the resource is Disabling and not Live, and the feed just opened is closed.
C3_RaceDiscardsEnable ==
    [][\A id \in Collections :
         /\ (pendingEnable[id] /\ pendingEnable'[id])
                => Issued(calls', "disable", id) = 0
         /\ (pendingEnable[id] /\ count[id] = 0 /\ last'.op = "enableResolved")
                => /\ Issued(calls', "disable", id) = 1
                   /\ pendingDisable'[id]
                   /\ ~Live(id)'
                   /\ upstream'[id] = {}
                   /\ realtimeUnsubscribers'[id] = 0]_vars

\* The enable resolved after the only listener was removed again.
C3_Witness ==
    /\ last.op = "enableResolved"
    /\ count["posts"] = 0
    /\ Issued(calls, "disable", "posts") = 1
    /\ upstream["posts"] = {}

\* C4: every disable the bus calls finds the resource enabled: the bus holds
\* the live handle, and the binding holds the release function, stored by a
\* completed enable and consumed by no disable since, of a feed still open.
C4_DisableOnlyEnabled ==
    \A i \in DOMAIN calls :
        calls[i].fn = "disable" => (calls[i].held /\ liveHandle[calls[i].id])

\* A clear took the listeners of a Live resource away and disabled it.
C4_Witness ==
    /\ last.op = "clearAll"
    /\ calls # <<>>
    /\ calls[1].fn = "disable"
    /\ calls[1].held

\* ------------------------------------------------------ dispatch: claims
\* The positions of the log at which the listener was invoked.
InvokedAt(log, entry) ==
    {i \in DOMAIN log : log[i].cb = entry.cb /\ log[i].wrap = entry.wrap}

Wrappers(q) == {q[i] : i \in {j \in DOMAIN q : q[j].wrap > 0}}

\* The invocations one emit makes of the listeners in q, when none of them emits.
Fanout(q, payload) == [i \in DOMAIN q |-> Invocation(q[i], payload, 0)]

C13_ThrowIsolated ==
    [][\A n \in DispatchNames :
         last'.op \in {"emit", "set", "remove"} =>
            /\ ~last'.threw
            /\ \A i, j \in DOMAIN handlers[n] :
                 (i < j /\ handlers[n][i].cb \in Throwers) =>
                    \A k \in InvokedAt(invoked', handlers[n][i]) :
                       \/ \E m \in InvokedAt(invoked', handlers[n][j]) : m > k
                       \/ /\ handlers[n][j].wrap > 0
                          /\ \E m \in InvokedAt(invoked', handlers[n][j]) : m < k]_vars

\* set("a", ..) emitted state:a to a thrower and then to a listener after it.
C13_Witness ==
    /\ last.op = "set"
    /\ ~last.threw
    /\ Len(invoked) = 2
    /\ invoked[1].cb = "hThrow"
    /\ invoked[2].cb = "h1"

\* C19: after off(name, cb) no listener for cb is registered for name, be it
\* cb itself or a wrapper that once(name, cb) registered.
C19_OnceRemovable ==
    [][\A n \in DispatchNames :
         last'.op = "off" =>
            \A i \in DOMAIN handlers'[n] : handlers'[n][i].cb # last'.key]_vars

\* ------------------------------------------------- store: claims (host)
\* C15: in a host whose persistent tiers are unavailable no store call throws,
\* and a set aimed at a persistent tier is dropped: it changes no tier.
C15_UnavailableTier ==
    [][(~window /\ now' = now) =>
         /\ ~last'.threw
         /\ (last'.op = "set" /\ last'.persist \in {"session", "local"})
                => /\ memoryStore' = memoryStore
                   /\ sessionStorage' = sessionStorage
                   /\ localStorage' = localStorage]_vars

\* The persistent tier is the first that get(key) finds an item in.
ReachedByGet(st, key, persist) ==
    /\ st.memory[key].kind = "none"
    /\ persist = "local" => st.session[key].kind \in {"none", "bad"}

\* C16: a get(key) that meets, in a persistent tier, a record that does not
\* decode returns without throwing and leaves that tier without the record.
C16_MalformedPurged ==
    [][\A p \in {"session", "local"} :
         (/\ last'.op = "get"
          /\ now' = now
          /\ Store[p][last'.key].kind = "bad"
          /\ ReachedByGet(Store, last'.key, p))
         => /\ ~last'.threw
            /\ Store'[p][last'.key].kind = "none"]_vars

\* C17 (in a host with the persistent tiers): after set(key, value, {persist})
\* with persist session or local the ephemeral tier holds no entry for key.
C17_PersistClearsEphemeral ==
    [][(window /\ now' = now /\ last'.op = "set" /\ last'.persist \in {"session", "local"})
         => memoryStore'[last'.key].kind = "none"]_vars

\* ------------------------------------------------------ DOM delegation
\* The page: a list that holds an item that holds a label, under the root the
\* native listener is attached to. The list and the item carry the class
\* "box"; document is the set of the elements that are in the page now.
MaxBindings == 2
Root == "root"
NoElement == "none"
Elements == {"list", "item", "label"}
Parent == [list |-> Root, item |-> "list", label |-> "item"]
ClassOf == [list |-> ".box", item |-> ".box", label |-> ".label"]
Selectors == {".box", ".label"}
DomCallbacks == {"h1", "h2"}

Matches(el, selector) == ClassOf[el] = selector

\* A delegated binding; seen is the set of the elements that were in the page
\* when it was registered, once tells a binding made by once.
Binding(type, selector, cb, isOnce, seen) ==
    [type |-> type, selector |-> selector, cb |-> cb, once |-> isOnce, seen |-> seen]

Delegator(bs, natives, log) == [bindings |-> bs, attached |-> natives, log |-> log]

BindingsOf(bs, type) == {i \in DOMAIN bs : bs[i].type = type}

candidates_AtSubscribe(b, doc) == b.seen

\* The elements a binding is matched against: those of the page at dispatch.
candidates(b, doc) == doc

\* The nearest of el and its ancestors that matches the selector.
RECURSIVE Closest(_, _, _)
Closest(el, selector, among) ==
    IF el = Root THEN NoElement
    ELSE IF el \in among /\ Matches(el, selector) THEN el
    ELSE Closest(Parent[el], selector, among)

delegate_AttachesEach(d, b) ==
    [d EXCEPT !.bindings = Append(@, b), !.attached[b.type] = @ + 1]

\* on(domEventType, selector, callback): the first binding of a type attaches
\* the native listener.
delegate(d, b) ==
    [d EXCEPT !.bindings = Append(@, b),
              !.attached[b.type] = IF BindingsOf(d.bindings, b.type) = {} THEN @ + 1 ELSE @]

\* The bindings without those at the positions gone.
RECURSIVE Kept(_, _, _)
Kept(bs, gone, i) ==
    IF i > Len(bs) THEN <<>>
    ELSE (IF i \in gone THEN <<>> ELSE <<bs[i]>>) \o Kept(bs, gone, i + 1)

\* Removal of bindings: the removal of the last one of a type detaches the
\* native listener.
undelegate(d, gone) ==
    LET rest == Kept(d.bindings, gone, 1)
    IN  [d EXCEPT !.bindings = rest,
                  !.attached = [t \in DomTypes |->
                      IF BindingsOf(d.bindings, t) # {} /\ BindingsOf(rest, t) = {}
                      THEN d.attached[t] - 1 ELSE d.attached[t]]]

\* off(domEventType, selector, callback)
delegateOff(d, type, selector, cb) ==
    undelegate(d, {i \in DOMAIN d.bindings :
                      /\ d.bindings[i].type = type
                      /\ d.bindings[i].selector = selector
                      /\ d.bindings[i].cb = cb
                      /\ ~d.bindings[i].once})

DomInvocation(b, matched) ==
    [type |-> b.type, cb |-> b.cb, selector |-> b.selector, once |-> b.once,
     matched |-> matched]

\* The positions of the bindings of the type that a dispatch on target matches.
Matched(bs, type, target, doc) ==
    {i \in BindingsOf(bs, type) :
        Closest(target, bs[i].selector, candidates(bs[i], doc)) # NoElement}

RECURSIVE callbacksOf(_, _, _, _, _)
callbacksOf(bs, hit, target, doc, i) ==
    IF i > Len(bs) THEN <<>>
    ELSE (IF i \in hit
          THEN <<DomInvocation(bs[i], Closest(target, bs[i].selector, candidates(bs[i], doc)))>>
          ELSE <<>>) \o callbacksOf(bs, hit, target, doc, i + 1)

\* A native dispatch of the type on target: every matching binding has its
\* callback invoked with the matched element, and the bindings made by once
\* are removed after their match.
dispatchEvent(d, type, target, doc) ==
    LET hit == Matched(d.bindings, type, target, doc)
        after == undelegate(d, {i \in hit : d.bindings[i].once})
    IN  [after EXCEPT !.log = callbacksOf(d.bindings, hit, target, doc, 1)]

\* -------------------------------------------------- DOM delegation: steps
Dom == Delegator(bindings, attached, <<>>)

DomStep(op, key, d, doc) ==
    /\ bindings' = d.bindings
    /\ attached' = d.attached
    /\ document' = doc
    /\ invoked' = d.log
    /\ emitted' = <<>>
    /\ last' = [NoCall EXCEPT !.op = op, !.key = key]
    /\ UNCHANGED <<storeVars, handlers, busVars, dbVars, calls>>

Bound(type, selector, cb, isOnce) ==
    \E i \in DOMAIN bindings :
        /\ bindings[i].type = type
        /\ bindings[i].selector = selector
        /\ bindings[i].cb = cb
        /\ bindings[i].once = isOnce

\* events.on(type, selector, cb)
Bind(type, selector, cb) ==
    /\ Len(bindings) < MaxBindings
    /\ ~Bound(type, selector, cb, FALSE)
    /\ DomStep("on", cb, delegate(Dom, Binding(type, selector, cb, FALSE, document)), document)

\* events.once(type, selector, cb)
BindOnce(type, selector, cb) ==
    /\ Len(bindings) < MaxBindings
    /\ ~Bound(type, selector, cb, TRUE)
    /\ DomStep("once", cb, delegate(Dom, Binding(type, selector, cb, TRUE, document)), document)

\* events.off(type, selector, cb)
Unbind(type, selector, cb) ==
    /\ Bound(type, selector, cb, FALSE)
    /\ DomStep("off", cb, delegateOff(Dom, type, selector, cb), document)

\* The page inserts an element under its parent.
Insert(el) ==
    /\ el \notin document
    /\ Parent[el] = Root \/ Parent[el] \in document
    /\ DomStep("insert", el, Dom, document \cup {el})

RECURSIVE Above(_)
Above(el) == IF el = Root THEN {} ELSE {el} \cup Above(Parent[el])

\* The page removes an element, and with it the elements it holds.
Detach(el) ==
    /\ el \in document
    /\ DomStep("detach", el, Dom, {e \in document : el \notin Above(e)})

\* The user clicks on, or types into, an element of the page: a native event
\* of the type is dispatched on it.
Click(type, target) ==
    /\ target \in document
    /\ DomStep(type, target, dispatchEvent(Dom, type, target, document), document)

DomInit ==
    /\ InitStore
    /\ InitBus
    /\ InitDom
    /\ window = TRUE
    /\ quotaExceeded = FALSE
    /\ handlers = [n \in Names |-> <<>>]

\* The page binds click with every selector, h1 for good and h2 once, and
\* input on the label with h1.
DomNext ==
    \/ \E s \in Selectors : Bind("click", s, "h1")
    \/ Bind("input", ".label", "h1")
    \/ \E s \in Selectors : BindOnce("click", s, "h2")
    \/ \E t \in DomTypes, s \in Selectors, cb \in DomCallbacks : Unbind(t, s, cb)
    \/ \E el \in Elements : Insert(el)
    \/ \E el \in Elements : Detach(el)
    \/ \E t \in DomTypes, el \in Elements : Click(t, el)

DomSpec == DomInit /\ [][DomNext]_vars

\* ------------------------------------------------ DOM delegation: claims
\* The invocations a step made for a binding.
HitsOf(log, b) ==
    {j \in DOMAIN log : /\ log[j].type = b.type
                        /\ log[j].cb = b.cb
                        /\ log[j].selector = b.selector
                        /\ log[j].once = b.once}

\* The elements among target and its ancestors that match the selector and
\* have no matching element between them and target.
Nearest(target, selector) ==
    {e \in Above(target) :
        /\ Matches(e, selector)
        /\ \A f \in Above(target) : (Matches(f, selector) /\ e \in Above(f)) => f = e}

\* C14: a dispatch on a target invokes the callback of a binding of its type
\* exactly once (and that of no binding of another type),
\* with the nearest element among the target and its ancestors that matches
\* the selector in the page as it is at dispatch (also an element inserted
\* after the binding was registered), and not at all when none matches.
C14_MatchAtDispatch ==
    [][last'.op \in DomTypes =>
         \A i \in DOMAIN bindings :
            LET hits == HitsOf(invoked', bindings[i])
                near == IF bindings[i].type = last'.op
                        THEN Nearest(last'.key, bindings[i].selector)
                        ELSE {}
            IN  IF near = {} THEN hits = {}
                ELSE /\ Cardinality(hits) = 1
                     /\ \A j \in hits : invoked'[j].matched \in near]_vars

\* A click invoked the callback of a binding with an element that was not in
\* the page when the binding was registered, below one that was and matches.
C14_Witness ==
    /\ last.op = "click"
    /\ \E i \in DOMAIN bindings : \E j \in HitsOf(invoked, bindings[i]) :
          /\ invoked[j].matched \notin bindings[i].seen
          /\ \E e \in bindings[i].seen : Matches(e, bindings[i].selector)

\* ---------------------------------------------------- db events: claims
DeleteEvents(events) ==
    {i \in DOMAIN events : /\ Len(events[i].name) = 3
                           /\ events[i].name[1] = "db"
                           /\ events[i].name[3] = "delete"}

\* C18: every db:{collection}:delete event carries the payload { id }: the
\* identifier of the deleted record and nothing else, whether db.delete emitted
\* it or the realtime feed.
C18_DeleteCarriesId ==
    \A i \in DeleteEvents(emitted) : DOMAIN emitted[i].payload = {"id"}

\* ------------------------------------------------------- clear: claims
\* C20 (as stated): a clear removes the listeners of its name, or of every
\* name, and for every resource it removed listeners of, the count is zero
\* afterwards and the step issued exactly one disable.
C20_ClearDisablesOnce ==
    [][last'.op \in {"clear", "clearAll"} =>
         /\ \E n \in DbNames : handlers'[n] = <<>>
         /\ \A id \in Collections :
               count'[id] < count[id]
                   => (count'[id] = 0 /\ Issued(calls', "disable", id) = 1)]_vars

\* C20 (amended): clear(name) empties the listeners of name and of no other
\* name, clear() those of every name, and an emit invokes only listeners that
\* are registered; the count of the resource is the number of its listeners
\* left (zero after clear()); the step issues exactly one disable, however many
\* listeners it removed, when it takes the count of a Live resource to zero,
\* and none otherwise (not while listeners of another action remain, and not
\* while an enable is pending or the resource is not enabled).
C20_ClearReleases ==
    [][\A id \in Collections :
         /\ (last'.op \in {"clear", "clearAll"} /\ last'.key = id) =>
               /\ last'.op = "clearAll" => \A n \in Names : handlers'[n] = <<>>
               /\ last'.op = "clear" =>
                     \E n \in DbNames :
                        /\ handlers'[n] = <<>>
                        /\ \A m \in Names \ {n} : handlers'[m] = handlers[m]
               /\ count'[id] = ListenersOf(handlers', id)
               /\ Issued(calls', "disable", id)
                     = IF Live(id) /\ count'[id] = 0 THEN 1 ELSE 0
         /\ last'.op \in {"realtime", "dbDelete"} =>
               \A i \in DOMAIN invoked' :
                  InSeq(invoked'[i].handler, handlers[invoked'[i].event.name])]_vars

\* clear() just removed several listeners of the Live resource posts and
\* issued its one disable.
C20_Witness ==
    /\ last.op = "clearAll"
    /\ last.before >= 2
    /\ count["posts"] = 0
    /\ Issued(calls, "disable", "posts") = 1
    /\ handlers = [n \in Names |-> <<>>]

\* ------------------------------------------------ store: claims (tiers)
\* The tier holds a StoredValue for the key that has expired at time t.
HoldsExpired(st, key, persist, t) ==
    LET stored == Read(st, key, persist)
    IN  stored.kind = "rec" /\ stored.expiry # NoExpiry /\ t > stored.expiry

\* The tiers get(key) searches before it finds a non-expired entry.
SearchedBefore(st, key, t) ==
    {TierOrder[i] : i \in {i \in 1..3 : \A j \in 1..i : ~HoldsLive(st, key, TierOrder[j], t)}}

\* C24: get(key) does not throw, removes every expired entry it meets on its
\* way through the tiers, and returns the value of the first tier that holds a
\* non-expired entry for key (absent when none does): an expired ephemeral
\* entry does not hide a live session or local entry.  (Stated for keys under
\* which every item of the tiers is a record of the store.)
C24_ExpiredSkipped ==
    [][(/\ window
        /\ last'.op = "get"
        /\ now' = now
        /\ \A p \in Persist : Read(Store, last'.key, p).kind # "num") =>
         LET k == last'.key
         IN  /\ ~last'.threw
             /\ \A p \in SearchedBefore(Store, k, now) :
                   HoldsExpired(Store, k, p, now) => Store'[p][k].kind = "none"
             /\ (\E p \in Persist : HoldsLive(Store, k, p, now))
                   => last'.ret = Read(Store, k, FirstLive(Store, k, now)).value
             /\ (\A p \in Persist : ~HoldsLive(Store, k, p, now))
                   => last'.ret = Undefined]_vars

\* C29: a set to a persistent tier leaves a non-expired entry for the key in
\* the other persistent tier as it was, and a set to the ephemeral tier leaves
\* the non-expired entries for the key in both persistent tiers as they were.
C29_SetKeepsOtherTiers ==
    [][(last'.op = "set" /\ now' = now) =>
         \A p \in {"session", "local"} \ {last'.persist} :
            HoldsLive(Store, last'.key, p, now)
               => Store'[p][last'.key] = Store[p][last'.key]]_vars

\* A set to the session tier has just stored a value while the local tier
\* holds a non-expired entry with another value for the same key.
C29_Witness ==
    /\ last.op = "set"
    /\ ~last.threw
    /\ last.persist = "session"
    /\ HoldsLive(Store, last.key, "session", now)
    /\ HoldsLive(Store, last.key, "local", now)
    /\ Read(Store, last.key, "local").value # Read(Store, last.key, "session").value

\* The positions of a list at which the descriptor {key, storage} stands.
ListedAt(l, key, persist) ==
    {i \in DOMAIN l : l[i].key = key /\ l[i].storage = persist}

TierRank(persist) == CHOOSE i \in 1..3 : TierOrder[i] = persist

\* The tier holds for the key an item that decodes and has not expired: a
\* non-expired StoredValue, or JSON text that is no record (it has no expiry).
Listable(st, key, persist, t) ==
    HoldsLive(st, key, persist, t) \/ Read(st, key, persist).kind = "num"

\* C30: list() returns one descriptor for every non-expired entry of every
\* tier and no other (a key held in two tiers once per tier), the descriptors
\* of memory before those of session before those of local, and it leaves
\* every tier as it was.
C30_ListEnumerates ==
    [][(last'.op = "list" /\ now' = now) =>
         /\ ~last'.threw
         /\ \A k \in Keys, p \in Persist :
               Cardinality(ListedAt(last'.ret, k, p))
                  = IF Listable(Store, k, p, now) THEN 1 ELSE 0
         /\ \A i, j \in DOMAIN last'.ret :
               i < j => TierRank(last'.ret[i].storage) <= TierRank(last'.ret[j].storage)
         /\ memoryStore' = memoryStore
         /\ sessionStorage' = sessionStorage
         /\ localStorage' = localStorage]_vars

\* list() ran on a store that holds key "a" live in the session and the local
\* tier and expired in the ephemeral tier: it lists the two live entries.
C30_Witness ==
    /\ last.op = "list"
    /\ HoldsExpired(Store, "a", "memory", now)
    /\ Len(last.ret) = 2
    /\ ListedAt(last.ret, "a", "session") # {}
    /\ ListedAt(last.ret, "a", "local") # {}

\* ------------------------------------------------- bus: claims (counts)
\* C21: when the enable of a resource rejects, the resource is Idle again (no
\* live handle, no enable pending), its listener count is kept and the step
\* issues no call; while the count stays >= 1 after the failure an on issues no
\* enable, and a later step that takes the count from 0 to 1 issues enable
\* again, once.
C21_EnableRejected ==
    [][\A id \in Collections :
         /\ (last'.op = "enableRejected" /\ last'.key = id) =>
               /\ ~liveHandle'[id]
               /\ ~pendingEnable'[id]
               /\ count'[id] = count[id]
               /\ calls' = <<>>
         /\ (/\ count[id] >= 1 /\ ~liveHandle[id] /\ ~pendingEnable[id]
             /\ last'.op = "on" /\ last'.key = id) =>
               /\ Issued(calls', "enable", id) = 0
               /\ ~pendingEnable'[id]
         /\ (/\ count[id] = 0 /\ ~liveHandle[id] /\ ~pendingEnable[id]
             /\ count'[id] >= 1) =>
               /\ Issued(calls', "enable", id) = 1
               /\ pendingEnable'[id]]_vars

\* After the enable of posts failed with one listener registered, a second
\* listener was registered: no retry, the resource stays Idle with count 2.
C21_Witness ==
    /\ last.op = "on"
    /\ count["posts"] = 2
    /\ ~pendingEnable["posts"]
    /\ ~liveHandle["posts"]
    /\ ~pendingDisable["posts"]
    /\ calls = <<>>

\* C25: in every state the count of a resource is >= 0 and is the number of
\* listeners registered on the names of the resource; an off of a handle that
\* is not registered on the name changes no count and issues no disable.
C25_CountIsListeners ==
    /\ [](\A id \in Collections : count[id] >= 0 /\ count[id] = ListenersOf(handlers, id))
    /\ [][(last'.op = "off" /\ handlers' = handlers) =>
            \A id \in Collections :
               count'[id] = count[id] /\ Issued(calls', "disable", id) = 0]_vars

\* An off of a handle that was not registered on its name just ran while the
\* resource posts is Live with one listener.
C25_Witness ==
    /\ last.op = "off"
    /\ last.before = 1
    /\ count["posts"] = 1
    /\ Live("posts")

EnableCompleted == {"enableResolved", "enableDone"}

\* C26: the live handle of a resource becomes set only in a step in which an
\* enable of it completes successfully, and every such step leaves it set; it
\* becomes unset only in a step in which a disable of it completes, and every
\* such step leaves it unset; it is unset initially.  So it is set exactly when
\* an enable has completed successfully and no disable has completed since.
\* The release function in the binding's map is stored only when a subscribe
\* resolves and dropped only by a disable call.
C26_LiveHandleIff ==
    /\ (\A id \in Collections : ~liveHandle[id])
    /\ [][\A id \in Collections :
            /\ (last'.op \in EnableCompleted /\ last'.key = id) => liveHandle'[id]
            /\ (last'.op = "disableDone" /\ last'.key = id) => ~liveHandle'[id]
            /\ (last'.op \notin EnableCompleted \cup {"disableDone"})
                  => liveHandle'[id] = liveHandle[id]
            /\ (realtimeUnsubscribers[id] = 0 /\ realtimeUnsubscribers'[id] # 0)
                  => last'.op = "enableResolved"
            /\ (realtimeUnsubscribers[id] # 0 /\ realtimeUnsubscribers'[id] = 0)
                  => Issued(calls', "disable", id) = 1]_vars

\* The disable of posts has just completed after its enable had: the handle
\* is unset again, with no listener left.
C26_Witness ==
    /\ last.op = "disableDone"
    /\ ~liveHandle["posts"]
    /\ count["posts"] = 0
    /\ upstream["posts"] = {}

\* ------------------------------------------- the binding driven directly
\* The functions db.ts registers with the events module, called in any order
\* by their caller; calls keeps the calls made so far, each with whether a
\* subscribe of the collection was pending when it was made.
MaxCalls == 3

Requested(fn, collection) ==
    [fn |-> fn, id |-> collection,
     held |-> realtimeUnsubscribers[collection] \in upstream[collection],
     pending |-> subscribing[collection] > 0]

BindingStep(op, collection, w, log) ==
    /\ realtimeUnsubscribers' = w.unsubscribers
    /\ subscribing' = w.subscribing
    /\ upstream' = w.upstream
    /\ completions' = w.completions
    /\ calls' = log
    /\ last' = [NoCall EXCEPT !.op = op, !.key = collection]
    /\ emitted' = <<>>
    /\ invoked' = <<>>
    /\ UNCHANGED <<storeVars, domVars, handlers, busVars>>

\* enableRealtime(collection) is called.
CallEnable(collection) ==
    /\ Len(calls) < MaxCalls
    /\ BindingStep("enable", collection, enableRealtime(World, collection),
                   Append(calls, Requested("enable", collection)))

\* disableRealtime(collection) is called.
CallDisable(collection) ==
    /\ Len(calls) < MaxCalls
    /\ BindingStep("disable", collection, disableRealtime(World, collection),
                   Append(calls, Requested("disable", collection)))

\* client.subscribe resolves and enableRealtime resumes after its await.
BindingSubscribed(collection) ==
    /\ subscribing[collection] > 0
    /\ completions = <<>>
    /\ Cardinality(upstream[collection]) < MaxSubs
    /\ BindingStep("subscribed", collection,
                   enableRealtimeResume(World, collection, NewSub(World, collection)), calls)

\* client.subscribe rejects.
BindingRejected(collection) ==
    /\ subscribing[collection] > 0
    /\ completions = <<>>
    /\ BindingStep("rejected", collection, enableRealtimeFail(World, collection), calls)

\* The caller of a call that returned goes on after its await.
BindingSettled ==
    /\ completions # <<>>
    /\ BindingStep(Head(completions).fn \o "Done", Head(completions).id,
                   [World EXCEPT !.completions = Tail(@)], calls)

BindingInit ==
    /\ InitStore
    /\ InitBus
    /\ InitDom
    /\ window = TRUE
    /\ quotaExceeded = FALSE
    /\ handlers = [n \in Names |-> <<>>]

BindingNext ==
    \/ \E c \in Collections : CallEnable(c)
    \/ \E c \in Collections : CallDisable(c)
    \/ \E c \in Collections : BindingSubscribed(c)
    \/ \E c \in Collections : BindingRejected(c)
    \/ BindingSettled

BindingSpec == BindingInit /\ [][BindingNext]_vars

\* C28: when the last call made for a collection is a disableRealtime that was
\* made while an enableRealtime of it was pending, then once every call has
\* settled no upstream subscription of the collection is active.
C28_RaceLeavesNoFeed ==
    \A c \in Collections :
        (/\ calls # <<>>
         /\ calls[Len(calls)].fn = "disable"
         /\ calls[Len(calls)].id = c
         /\ calls[Len(calls)].pending
         /\ subscribing[c] = 0
         /\ completions = <<>>)
        => upstream[c] = {}

\* C23: in every state, for each event type, one native listener is attached
\* to the root when a delegated binding of the type is registered and none
\* otherwise; so the first binding attaches it, further bindings share it, and
\* the removal of the last binding (by off, or by a once binding that fired)
\* detaches it.
C23_OneNativeListener ==
    \A t \in DomTypes :
        attached[t] = IF BindingsOf(bindings, t) # {} THEN 1 ELSE 0

\* A click has just fired the only click binding, made by once: it is gone and
\* the native click listener is detached, while the input binding keeps its own.
C23_Witness ==
    /\ last.op = "click"
    /\ invoked # <<>>
    /\ BindingsOf(bindings, "click") = {}
    /\ attached["click"] = 0
    /\ BindingsOf(bindings, "input") # {}
    /\ attached["input"] = 1

\* ------------------------------------------- single-item subscriptions
\* The event the record subscription of enableRealtimeRecord emits.
ItemEvent(collection, action, id, payload) ==
    [name |-> <<"db", collection, action, id>>, payload |-> payload]

\* The callback enableRealtimeRecord subscribed with receives a change of
\* its record.
RecordMessage(collection, action, id) ==
    /\ upstream[ItemKey(collection, id)] # {}
    /\ DbEmit("realtimeRecord", ItemKey(collection, id),
              <<ItemEvent(collection, action, id, RecordPayload(id))>>)

\* A page with the listener h1 on the updates of a collection and the
\* listener h2 on the updates of one record of it.  The subscribe of a record
\* resolves and rejects as that of a collection does.
Subscriptions ==
    {<<<<"db", "posts", "update">>, "h1">>, <<<<"db", "posts", "update", "r1">>, "h2">>}

ItemInit ==
    /\ InitStore
    /\ InitBus
    /\ InitDom
    /\ window = TRUE
    /\ quotaExceeded = FALSE
    /\ handlers = [n \in Names |-> <<>>]

ItemNext ==
    \/ \E s \in Subscriptions : On(s[1], s[2])
    \/ \E s \in Subscriptions : Off(s[1], s[2])
    \/ \E id \in Resources : SubscribeResolved(id)
    \/ \E id \in Resources : SubscribeRejected(id)
    \/ Deliver
    \/ \E c \in Collections, a \in ItemActions, id \in RecordIds : RealtimeMessage(c, a, id)
    \/ \E c \in Collections, a \in ItemActions, id \in RecordIds : RecordMessage(c, a, id)

ItemSpec == ItemInit /\ [][ItemNext]_vars

\* ------------------------------------------ single-item names: claims
\* C22: an emit invokes the listeners registered under exactly the emitted
\* name, each once, and no other: a listener of db:posts:update is not invoked
\* by db:posts:update:r1, nor the other way round.
C22_ExactNameOnly ==
    \A i \in DOMAIN emitted :
        LET e == emitted[i]
            run == {j \in DOMAIN invoked : invoked[j].event = e}
        IN  /\ Cardinality(run) = Len(handlers[e.name])
            /\ \A j \in run : InSeq(invoked[j].handler, handlers[e.name])

\* The record feed has just emitted db:posts:update:r1 while h1 listens to
\* db:posts:update and h2 to db:posts:update:r1: only h2 was invoked.
C22_Witness ==
    /\ last.op = "realtimeRecord"
    /\ handlers[<<"db", "posts", "update">>] = <<"h1">>
    /\ handlers[<<"db", "posts", "update", "r1">>] = <<"h2">>
    /\ Len(invoked) = 1
    /\ invoked[1].handler = "h2"

\* The number of listeners registered under the names of a set.
RECURSIVE CountedUnder(_, _)
CountedUnder(hs, names) ==
    IF names = {} THEN 0
    ELSE LET n == CHOOSE n \in names : TRUE
         IN  Len(hs[n]) + CountedUnder(hs, names \ {n})

ItemCalls == {"enableItem", "disableItem"}

\* C27: the listeners of the single-item names of (collection, id) are counted
\* under the record key, those of the collection-level names under the
\* collection; a call for a record key is enableItem / disableItem and a call
\* for a collection enable / disable; a step that changes the listeners of a
\* single-item name issues calls for its record key only and one that changes
\* those of a collection-level name for the collection only; the 0->1 step of
\* an idle record issues one enableItem and the ->0 step of a Live record one
\* disableItem.
C27_ItemCountedApart ==
    [][/\ \A c \in Collections :
            count'[c] = CountedUnder(handlers', {n \in DbNames : n[2] = c})
       /\ \A c \in Collections, r \in RecordIds :
            count'[ItemKey(c, r)]
               = CountedUnder(handlers', {n \in ItemNames : n[2] = c /\ n[4] = r})
       /\ \A i \in DOMAIN calls' :
            calls'[i].fn \in ItemCalls <=> calls'[i].id \in ItemKeys
       /\ \A n \in ItemNames :
            handlers'[n] # handlers[n] =>
               \A i \in DOMAIN calls' : calls'[i].id = ItemKey(n[2], n[4])
       /\ \A n \in DbNames :
            handlers'[n] # handlers[n] =>
               \A i \in DOMAIN calls' : calls'[i].id = n[2]
       /\ \A k \in ItemKeys :
            /\ (count[k] = 0 /\ count'[k] >= 1 /\ ~pendingEnable[k])
                  => Issued(calls', "enableItem", k) = 1
            /\ (Live(k) /\ count'[k] = 0) => Issued(calls', "disableItem", k) = 1]_vars

\* The listener of the record was just removed while both feeds were Live:
\* one disableItem for the record key, and the collection stays Live.
C27_Witness ==
    /\ last.op = "off"
    /\ last.key = "posts:r1"
    /\ Len(calls) = 1
    /\ calls[1].fn = "disableItem"
    /\ calls[1].id = "posts:r1"
    /\ calls[1].held
    /\ Live("posts")

\* ------------------------------------------------------ expiry that set stores
\* The tier a set call is to write: the persistent tier asked for where it has a
\* backend, the ephemeral tier otherwise.
WrittenTier(persist) == IF window /\ persist \in {"session", "local"} THEN persist ELSE "memory"

\* C31: a set call whose write is accepted stores expiry = now + ttl whenever
\* a ttl is given, ttl = 0 included, and no expiry when ttl is omitted; and an
\* entry that has no expiry is never treated as expired.
C31_ExpiryIsNowPlusTtl ==
    [][(last'.op = "set" /\ now' = now /\ ~last'.threw /\ ~quotaExceeded) =>
        LET stored == Store'[WrittenTier(last'.persist)][last'.key]
        IN  /\ stored.kind = "rec"
            /\ stored.expiry = IF last'.ttl = NoTtl THEN NoExpiry ELSE now + last'.ttl
            /\ stored.expiry = NoExpiry => \A t \in 0..MaxNow : ~isExpired(stored, t)]_vars

\* ------------------------------------------------------------- termination
\* C32: in every reachable store state each of get, has, set and remove
\* returns for every key: none of them exhausts the stack through the mutual
\* calls of get and remove.
C32_CallsReturn ==
    \A k \in Keys :
        /\ ~stateGet(Store, k, now, MaxStack).threw
        /\ ~stateHas(Store, k, now, MaxStack).threw
        /\ ~stateRemove(Store, k, now, MaxStack).threw
        /\ \A p \in Persist : ~stateSet(Store, k, "v1", p, NoTtl, now, MaxStack).threw

\* ------------------------------------------------------- read after a write
\* C33: right after a set call that wrote a defined value into an available
\* tier, get of the same key returns the value just written, whatever the
\* tier written and whatever the tiers held before.
C33_GetReturnsWritten ==
    [][(/\ last'.op = "set" /\ now' = now /\ ~last'.threw
        /\ last'.value # Undefined
        /\ ~quotaExceeded
        /\ last'.persist = WrittenTier(last'.persist))
       => LET g == stateGet(Store', last'.key, now', MaxStack)
          IN  ~g.threw /\ g.ret = last'.value]_vars

\* ------------------------------------------------------- list, has, remove
\* The keys that list() reports.
ListedKeys == {stateList(Store, now)[i].key : i \in 1..Len(stateList(Store, now))}

\* C37: a key is listed exactly when has(key) is true, and once remove(key)
\* has returned no tier holds an item for the key; entries whose value is
\* undefined and items that decode to a non-record value included.
C37_ListedIffHas ==
    /\ \A k \in Keys :
           LET h == stateHas(Store, k, now, MaxStack)
           IN  ~h.threw => (k \in ListedKeys <=> h.ret = "true")
    /\ (last.op = "remove" /\ ~last.threw) => Holding(Store, last.key) = {}

\* ------------------------------------------------------- a rejected write
\* C38: a set call whose write to a persistent tier is rejected by the
\* backend does not throw and leaves the store as it was: every tier, the
\* ephemeral copy of the key included, is unchanged and no change event is
\* emitted.  (Keys with an expired entry are left aside: the read that set
\* starts with purges them.)
C38_RejectedWriteLeavesStore ==
    [][(/\ last'.op = "set" /\ now' = now
        /\ quotaExceeded
        /\ last'.persist \in {"session", "local"}
        /\ \A p \in Persist : ~isExpired(Store[p][last'.key], now))
       => /\ ~last'.threw
          /\ memoryStore' = memoryStore
          /\ sessionStorage' = sessionStorage
          /\ localStorage' = localStorage
          /\ emitted' = <<>>]_vars

\* ------------------------------------------------ one held subscription
\* C35: whatever the interleaving of the enableRealtime and disableRealtime
\* calls of a collection, at most one upstream subscription of it is active,
\* and every active one has its release function held in the unsubscriber
\* map (none is leaked).
C35_NoLeakedSubscription ==
    \A c \in Collections :
        /\ Cardinality(upstream[c]) <= 1
        /\ upstream[c] \subseteq {realtimeUnsubscribers[c]}

\* ------------------------------------------------ a creation delivered once
\* The invocations of handler h in a sequence of invocations.
InvocationsOf(h, invs) == Cardinality({i \in DOMAIN invs : invs[i].handler = h})

\* C36: db.create invokes each listener of db:{collection}:create once for
\* the record created, and when the live feed then reports the same creation
\* no listener is invoked for it a second time.
C36_CreateInvokesOnce ==
    [][/\ last'.op = "dbCreate" =>
            \A h \in Handlers :
                InvocationsOf(h, invoked') =
                    IF InSeq(h, handlers[<<"db", last'.key, "create">>]) THEN 1 ELSE 0
       /\ (last.op = "dbCreate" /\ last'.op = "realtime" /\ emitted' = emitted)
            => invoked' = <<>>]_vars

\* ------------------------------------------------ settling once calls stop
\* The bus and its binding where what is pending does settle: a queued
\* reaction runs, and a client.subscribe that stays pending resolves (unless
\* it rejects first).
SettleSpec ==
    /\ EventsInit
    /\ [][EventsNext]_vars
    /\ WF_vars(Deliver)
    /\ \A c \in Collections : WF_vars(SubscribeResolved(c))

\* A step that is no on, off or clear call and no rejected enable.
Quiet == last'.op \notin {"on", "off", "clear", "clearAll", "enableRejected"}

\* Idle: no listener, no handle, nothing in flight.
IdleResource(id) ==
    count[id] = 0 /\ ~liveHandle[id] /\ ~pendingEnable[id] /\ ~pendingDisable[id]

\* Left Idle with its listeners by an enable that was rejected.
FailedIdle(id) ==
    count[id] >= 1 /\ ~liveHandle[id] /\ ~pendingEnable[id] /\ ~pendingDisable[id]

\* C34 (as stated): from any reachable state, once the on/off calls have
\* stopped and no enable is rejected any more, the resource settles in Live
\* when its count is >= 1 and in Idle when its count is 0.
C34_SettlesByCount ==
    \A c \in Collections :
        <>[][Quiet]_vars => <>[](IF count[c] >= 1 THEN Live(c) ELSE IdleResource(c))

\* C34 (amended): once the calls have stopped the resource settles in Idle
\* when its count is 0, and when its count is >= 1 in Live, or Idle with its
\* count kept where an enable of it was rejected; a resource is left in that
\* last state only by a rejected enable; and no step issues a disable of a
\* resource that has a listener after the step (on, off, on before the first
\* enable resolves included).
C34_SettlesUnlessRejected ==
    /\ \A c \in Collections :
           <>[][Quiet]_vars =>
               <>[](IF count[c] >= 1 THEN Live(c) \/ FailedIdle(c) ELSE IdleResource(c))
    /\ [][\A c \in Collections :
              FailedIdle(c)' => (FailedIdle(c) \/ last'.op = "enableRejected")]_vars
    /\ [][\A c \in Collections : Issued(calls', "disable", c) > 0 => count'[c] = 0]_vars

\* on, off, on were issued before the first enable resolved, and the resource
\* is Live with its one listener.
C34_Witness ==
    /\ last.op = "enableResolved"
    /\ Live("posts")
    /\ count["posts"] = 1
    /\ upstream["posts"] # {}

====
